---- MODULE Spec2Model ----
(***************************************************************************)
(* Model of the workflow decoder of workflow-linter.                       *)
(*                                                                         *)
(* src/src/workflow.rs declares the typed model (Workflow, Trigger, Event, *)
(* CronSchedule, Job, Step, Container) with derived serde encoders and     *)
(* decoders, and Workflow::parse_str, the one decode entry point.          *)
(* src/src/main.rs declares OneOrMany with into_vec, the enum form of      *)
(* Container with spec(), and an earlier Job.                              *)
(*                                                                         *)
(* A YAML document is a tree of nodes.  The derived decoders are written   *)
(* out as operators from nodes to results, following what the serde        *)
(* attributes on each type select: a plain struct reads a mapping by field *)
(* name (kebab-case, unknown keys skipped, Option and #[serde(default)]    *)
(* fields may be absent), an enum without `untagged` is externally tagged  *)
(* (a single-key mapping {variant: payload}), an `untagged` enum tries its *)
(* variants in declaration order and keeps the first that decodes.         *)
(***************************************************************************)
EXTENDS Integers, Sequences, FiniteSets, TLC

VARIABLES pc, doc, result, tried, wf, encoded, redecoded, oom, vec

vars == <<pc, doc, result, tried, wf, encoded, redecoded, oom, vec>>

(***************************************************************************)
(* Bounds of the model.                                                    *)
(***************************************************************************)
\* number of job identifiers a document may declare
MaxJobs == 3
\* longest `needs` list of a job
MaxNeeds == 1
\* longest list held by a OneOrMany::Many handed to into_vec
MaxLen == 3

(***************************************************************************)
(* Document tree (serde_yaml::Value): scalars, sequences, mappings.        *)
(***************************************************************************)
Null == [k |-> "null", s |-> "", items |-> <<>>]

Str(s) == [k |-> "str", s |-> s, items |-> <<>>]

Num(s) == [k |-> "int", s |-> s, items |-> <<>>]

SeqN(xs) == [k |-> "seq", s |-> "", items |-> xs]

Ent(key, val) == [key |-> key, val |-> val]

MapN(es) == [k |-> "map", s |-> "", items |-> es]

HasKey(n, key) == \E i \in 1..Len(n.items) : n.items[i].key = key

Get(n, key) == n.items[CHOOSE i \in 1..Len(n.items) : n.items[i].key = key].val

Keys(n) == {n.items[i].key : i \in 1..Len(n.items)}

\* the mapping n without the entries whose key is `key`
Without(n, key) == MapN(SelectSeq(n.items, LAMBDA e : e.key # key))

\* the mapping n with the value of `key` replaced by v
Replace(n, key, v) ==
    MapN([i \in 1..Len(n.items) |->
            IF n.items[i].key = key THEN Ent(key, v) ELSE n.items[i]])

(***************************************************************************)
(* Result<T, serde_yaml::Error>                                            *)
(***************************************************************************)
Ok(v) == [ok |-> TRUE, val |-> v, err |-> ""]

Err(e) == [ok |-> FALSE, val |-> <<>>, err |-> e]

\* Option<T>
None == [some |-> FALSE]

Some(v) == [some |-> TRUE, v |-> v]

(***************************************************************************)
(* Decoders shared by every type.                                          *)
(***************************************************************************)
de_String(n) == IF n.k = "str" THEN Ok(n.s) ELSE Err("invalid type")

de_i32(n) == IF n.k = "int" THEN Ok(n.s) ELSE Err("invalid type")

\* serde_yaml::Value takes every node as it is
de_Value(n) == Ok(n)

AnyErr(rs) == \E i \in 1..Len(rs) : ~rs[i].ok

\* the first failure among the results rs
FirstErr(rs) ==
    rs[CHOOSE i \in 1..Len(rs) : ~rs[i].ok /\ \A j \in 1..(i - 1) : rs[j].ok]

\* the decoded value of field `key` of mapping n, rs being the results of the
\* entries of n in document order
Seen(n, rs, key) == rs[CHOOSE i \in 1..Len(n.items) : n.items[i].key = key].val

\* Vec<T> on node n, rs being the decodes as T of the items of n in order:
\* a sequence node whose items all decode
de_Vec(n, rs) ==
    IF n.k # "seq" THEN Err("invalid type")
    ELSE IF AnyErr(rs) THEN FirstErr(rs)
    ELSE Ok([i \in 1..Len(rs) |-> rs[i].val])

\* Option<T> on node n, r being the decode of n as T: null is None
de_Option(n, r) ==
    IF n.k = "null" THEN Ok(None)
    ELSE IF r.ok THEN Ok(Some(r.val)) ELSE r

\* the items of a sequence node
Items(n) == IF n.k = "seq" THEN n.items ELSE <<>>

de_VecString(n) == de_Vec(n, [i \in 1..Len(Items(n)) |-> de_String(Items(n)[i])])

de_VecI32(n) == de_Vec(n, [i \in 1..Len(Items(n)) |-> de_i32(Items(n)[i])])

de_OptionString(n) == de_Option(n, de_String(n))

\* HashMap<String, String>
de_StringMap(n) ==
    IF n.k # "map" THEN Err("invalid type")
    ELSE IF \E i \in 1..Len(n.items) : n.items[i].val.k # "str"
         THEN Err("invalid type")
         ELSE Ok([key \in Keys(n) |-> Get(n, key).s])

de_OptionStringMap(n) == de_Option(n, de_StringMap(n))

(***************************************************************************)
(* Structs.  A derived struct decoder walks the mapping's entries in       *)
(* document order, decodes the value of every key that names a field and   *)
(* skips every other key (no type carries deny_unknown_fields); the first  *)
(* entry that fails to decode is the error (AnyErr, FirstErr over the      *)
(* entries' results), and a required field that was never seen is reported *)
(* after the walk.  A field that is an Option or carries #[serde(default)] *)
(* may be absent.                                                          *)
(***************************************************************************)

(***************************************************************************)
(* OneOrMany<T>                                                            *)
(***************************************************************************)
One(x) == [variant |-> "One", item |-> x]

Many(l) == [variant |-> "Many", list |-> l]

\* into_vec with the Many arm handing its list back in reverse
into_vec_reversed(self) ==
    IF self.variant = "One" THEN <<self.item>>
    ELSE [i \in 1..Len(self.list) |-> self.list[Len(self.list) + 1 - i]]

into_vec(self) ==
    IF self.variant = "One" THEN <<self.item>> ELSE self.list

\* the value under the single key of a mapping
Payload(n) == IF n.k = "map" /\ Len(n.items) >= 1 THEN n.items[1].val ELSE Null

\* The derived decoder of an enum with no `untagged` attribute: the variant
\* is named by the document.  A scalar names a unit variant, and OneOrMany
\* has none; a mapping names the variant by its single key (kebab-case).
\* rOne and rMany are the decodes of the payload as T and as Vec<T>.
de_OneOrMany(n, rOne, rMany) ==
    CASE n.k = "str" ->
            IF n.s \in {"one", "many"} THEN Err("invalid type") ELSE Err("unknown variant")
      [] n.k = "map" ->
            IF Len(n.items) # 1 THEN Err("invalid value")
            ELSE IF n.items[1].key = "one"
                 THEN IF rOne.ok THEN Ok(One(rOne.val)) ELSE rOne
            ELSE IF n.items[1].key = "many"
                 THEN IF rMany.ok THEN Ok(Many(rMany.val)) ELSE rMany
            ELSE Err("unknown variant")
      [] OTHER -> Err("invalid type")

de_OneOrManyString(n) ==
    de_OneOrMany(n, de_String(Payload(n)), de_VecString(Payload(n)))

\* the derived encoder: {one: item} or {many: [items]}
ser_OneOrManyString(x) ==
    IF x.variant = "One"
    THEN MapN(<<Ent("one", Str(x.item))>>)
    ELSE MapN(<<Ent("many", SeqN([i \in 1..Len(x.list) |-> Str(x.list[i])]))>>)

(***************************************************************************)
(* CronSchedule { cron: String }   ("TODO: validate cron string")          *)
(***************************************************************************)
CronSchedule_field(key, v) == IF key = "cron" THEN de_String(v) ELSE Ok(<<>>)

\* Reached only below the untagged Trigger, whose buffered decoder hands a
\* struct either a mapping (by field name) or a sequence (by position).
de_CronSchedule(n) ==
    CASE n.k = "map" ->
            LET rs == [i \in 1..Len(n.items) |->
                        CronSchedule_field(n.items[i].key, n.items[i].val)]
            IN  IF AnyErr(rs) THEN FirstErr(rs)
                ELSE IF ~HasKey(n, "cron") THEN Err("missing field")
                ELSE Ok([cron |-> Get(n, "cron").s])
      [] n.k = "seq" ->
            IF Len(n.items) # 1 THEN Err("invalid length")
            ELSE IF de_String(n.items[1]).ok THEN Ok([cron |-> n.items[1].s])
            ELSE de_String(n.items[1])
      [] OTHER -> Err("invalid type")

ser_CronSchedule(c) == MapN(<<Ent("cron", Str(c.cron))>>)

\* type Schedule = Vec<CronSchedule>
de_Schedule(n) ==
    de_Vec(n, [i \in 1..Len(Items(n)) |-> de_CronSchedule(Items(n)[i])])

(***************************************************************************)
(* enum Event, untagged: every variant wraps a Value.                      *)
(***************************************************************************)
EventVariants ==
    << "Push", "PullRequest", "WorkflowDispatch", "RepositoryDispatch",
       "CheckRun", "CheckSuite", "Create", "Delete", "Deployment",
       "DeploymentStatus", "Fork", "Gollum", "IssueComment", "Issues",
       "Label", "Milestone", "PageBuild", "Project", "ProjectCard",
       "ProjectColumn", "Public", "PullRequestReview",
       "PullRequestReviewComment", "PullRequestTarget", "RegistryPackage",
       "Release", "Status", "Watch", "WorkflowRun" >>

Event(variant, payload) == [variant |-> variant, v |-> payload]

\* untagged: the first variant, in declaration order, whose payload decodes
de_Event(n) ==
    IF \E i \in 1..Len(EventVariants) : de_Value(n).ok
    THEN Ok(Event(EventVariants[CHOOSE i \in 1..Len(EventVariants) :
                        /\ de_Value(n).ok
                        /\ \A j \in 1..(i - 1) : ~de_Value(n).ok],
                  de_Value(n).val))
    ELSE Err("data did not match any variant of untagged enum Event")

\* untagged: the payload is written with no trace of the variant
ser_Event(e) == e.v

de_VecEvent(n) == de_Vec(n, [i \in 1..Len(Items(n)) |-> de_Event(Items(n)[i])])

de_OneOrManyEvent(n) ==
    de_OneOrMany(n, de_Event(Payload(n)), de_VecEvent(Payload(n)))

ser_OneOrManyEvent(x) ==
    IF x.variant = "One"
    THEN MapN(<<Ent("one", ser_Event(x.item))>>)
    ELSE MapN(<<Ent("many", SeqN([i \in 1..Len(x.list) |-> ser_Event(x.list[i])]))>>)

(***************************************************************************)
(* enum Trigger, untagged: Events(OneOrMany<Event>), Schedule(Schedule)    *)
(***************************************************************************)
Trigger_Events(x) == [variant |-> "Events", events |-> x]

Trigger_Schedule(l) == [variant |-> "Schedule", schedule |-> l]

\* untagged: Events is tried first, Schedule only when Events failed; when
\* both fail the error is the enum's own, not either variant's
de_Trigger(n) ==
    IF de_OneOrManyEvent(n).ok
    THEN Ok(Trigger_Events(de_OneOrManyEvent(n).val))
    ELSE IF de_Schedule(n).ok
         THEN Ok(Trigger_Schedule(de_Schedule(n).val))
         ELSE Err("data did not match any variant of untagged enum Trigger")

\* the variants de_Trigger runs on node n, in the order it runs them, each
\* with the outcome of its own decode
Trigger_tried(n) ==
    LET e == de_OneOrManyEvent(n)
        s == de_Schedule(n)
    IN  IF e.ok
        THEN << [cand |-> "Events", ok |-> TRUE, err |-> ""] >>
        ELSE << [cand |-> "Events", ok |-> FALSE, err |-> e.err],
                [cand |-> "Schedule", ok |-> s.ok, err |-> s.err] >>

ser_Trigger(t) ==
    IF t.variant = "Events"
    THEN ser_OneOrManyEvent(t.events)
    ELSE SeqN([i \in 1..Len(t.schedule) |-> ser_CronSchedule(t.schedule[i])])

(***************************************************************************)
(* struct Container (workflow.rs), #[serde(default)] on the whole struct,  *)
(* and its FromStr.                                                        *)
(***************************************************************************)
Container_default ==
    [name |-> "", credentials |-> None, env |-> None,
     ports |-> <<>>, volumes |-> <<>>, options |-> <<>>]

Container_from_str(s) == [Container_default EXCEPT !.name = s]

Container_field(key, v) ==
    CASE key = "name" -> de_String(v)
      [] key = "credentials" -> de_OptionStringMap(v)
      [] key = "env" -> de_OptionStringMap(v)
      [] key = "ports" -> de_VecI32(v)
      [] key = "volumes" -> de_VecI32(v)
      [] key = "options" -> de_VecString(v)
      [] OTHER -> Ok(<<>>)

\* No field of Job names a string form for its container (there is no
\* deserialize_with), so the derived struct decoder is the only one.
\* rs: the results of Container_field on the entries of n, in order
Container_visit_map(n, rs) ==
    IF n.k # "map" THEN Err("invalid type")
    ELSE IF AnyErr(rs) THEN FirstErr(rs)
    ELSE Ok([name |-> IF HasKey(n, "name") THEN Seen(n, rs, "name") ELSE "",
             credentials |->
                IF HasKey(n, "credentials") THEN Seen(n, rs, "credentials") ELSE None,
             env |-> IF HasKey(n, "env") THEN Seen(n, rs, "env") ELSE None,
             ports |-> IF HasKey(n, "ports") THEN Seen(n, rs, "ports") ELSE <<>>,
             volumes |-> IF HasKey(n, "volumes") THEN Seen(n, rs, "volumes") ELSE <<>>,
             options |-> IF HasKey(n, "options") THEN Seen(n, rs, "options") ELSE <<>>])

de_Container(n) ==
    Container_visit_map(n, [i \in 1..Len(n.items) |->
                                Container_field(n.items[i].key, n.items[i].val)])

\* some enumeration of a finite set: the iteration order of a HashMap
OrderOf(S) ==
    CHOOSE s \in [1..Cardinality(S) -> S] :
        \A x \in S : \E i \in 1..Cardinality(S) : s[i] = x

ser_OptionString(o) == IF o.some THEN Str(o.v) ELSE Null

ser_OptionStringMap(o) ==
    IF o.some
    THEN MapN([i \in 1..Cardinality(DOMAIN o.v) |->
                Ent(OrderOf(DOMAIN o.v)[i], Str(o.v[OrderOf(DOMAIN o.v)[i]]))])
    ELSE Null

ser_Container(c) ==
    MapN(<< Ent("name", Str(c.name)),
            Ent("credentials", ser_OptionStringMap(c.credentials)),
            Ent("env", ser_OptionStringMap(c.env)),
            Ent("ports", SeqN([i \in 1..Len(c.ports) |-> Num(c.ports[i])])),
            Ent("volumes", SeqN([i \in 1..Len(c.volumes) |-> Num(c.volumes[i])])),
            Ent("options", SeqN([i \in 1..Len(c.options) |-> Str(c.options[i])])) >>)

de_OptionContainer(n) == de_Option(n, de_Container(n))

(***************************************************************************)
(* enum Container { ImageName(String), DetailedSpec(ContainerSpec) } and   *)
(* Container::spec (main.rs): an enum with no `untagged` attribute.        *)
(***************************************************************************)
ImageName(s) == [variant |-> "ImageName", name |-> s]

DetailedSpec(s) == [variant |-> "DetailedSpec", spec |-> s]

spec(self) ==
    IF self.variant = "ImageName"
    THEN [Container_default EXCEPT !.name = self.name]
    ELSE self.spec

de_ContainerEnum(n) ==
    CASE n.k = "str" ->
            IF n.s \in {"image-name", "detailed-spec"}
            THEN Err("invalid type") ELSE Err("unknown variant")
      [] n.k = "map" ->
            IF Len(n.items) # 1 THEN Err("invalid value")
            ELSE IF n.items[1].key = "image-name"
                 THEN IF de_String(n.items[1].val).ok
                      THEN Ok(ImageName(n.items[1].val.s))
                      ELSE de_String(n.items[1].val)
            ELSE IF n.items[1].key = "detailed-spec"
                 THEN IF de_Container(n.items[1].val).ok
                      THEN Ok(DetailedSpec(de_Container(n.items[1].val).val))
                      ELSE de_Container(n.items[1].val)
            ELSE Err("unknown variant")
      [] OTHER -> Err("invalid type")

(***************************************************************************)
(* struct Step: uses is a String, every other field an Option or default.  *)
(* Modelled fields: name, uses, run.                                       *)
(***************************************************************************)
Step_field(key, v) ==
    CASE key = "name" -> de_OptionString(v)
      [] key = "uses" -> de_String(v)
      [] key = "run" -> de_OptionString(v)
      [] OTHER -> Ok(<<>>)

\* rs: the results of Step_field on the entries of n, in order
Step_visit_map(n, rs) ==
    IF n.k # "map" THEN Err("invalid type")
    ELSE IF AnyErr(rs) THEN FirstErr(rs)
    ELSE IF ~HasKey(n, "uses") THEN Err("missing field")
    ELSE Ok([name |-> IF HasKey(n, "name") THEN Seen(n, rs, "name") ELSE None,
             uses |-> Seen(n, rs, "uses"),
             run |-> IF HasKey(n, "run") THEN Seen(n, rs, "run") ELSE None])

de_Step(n) ==
    Step_visit_map(n, [i \in 1..Len(n.items) |->
                            Step_field(n.items[i].key, n.items[i].val)])

ser_Step(s) ==
    MapN(<< Ent("name", ser_OptionString(s.name)),
            Ent("uses", Str(s.uses)),
            Ent("run", ser_OptionString(s.run)) >>)

de_VecStep(n) == de_Vec(n, [i \in 1..Len(Items(n)) |-> de_Step(Items(n)[i])])

(***************************************************************************)
(* struct Job (workflow.rs).  Modelled fields: name, needs, runs_on,       *)
(* steps, container; the fields left out are Options or defaulted and no   *)
(* document of the model sets them.                                        *)
(***************************************************************************)
Job_field(key, v) ==
    CASE key = "name" -> de_OptionString(v)
      [] key = "needs" -> de_VecString(v)
      [] key = "runs-on" -> de_OneOrManyString(v)
      [] key = "steps" -> de_VecStep(v)
      [] key = "container" -> de_OptionContainer(v)
      [] OTHER -> Ok(<<>>)

\* rs: the results of Job_field on the entries of n, in order
Job_visit_map(n, rs) ==
    IF n.k # "map" THEN Err("invalid type")
    ELSE IF AnyErr(rs) THEN FirstErr(rs)
    ELSE IF ~HasKey(n, "runs-on") THEN Err("missing field")
    ELSE Ok([name |-> IF HasKey(n, "name") THEN Seen(n, rs, "name") ELSE None,
             needs |-> IF HasKey(n, "needs") THEN Seen(n, rs, "needs") ELSE <<>>,
             runs_on |-> Seen(n, rs, "runs-on"),
             steps |-> IF HasKey(n, "steps") THEN Seen(n, rs, "steps") ELSE <<>>,
             container |->
                IF HasKey(n, "container") THEN Seen(n, rs, "container") ELSE None])

de_Job(n) ==
    Job_visit_map(n, [i \in 1..Len(n.items) |->
                        Job_field(n.items[i].key, n.items[i].val)])

ser_Job(j) ==
    MapN(<< Ent("name", ser_OptionString(j.name)),
            Ent("needs", SeqN([i \in 1..Len(j.needs) |-> Str(j.needs[i])])),
            Ent("runs-on", ser_OneOrManyString(j.runs_on)),
            Ent("steps", SeqN([i \in 1..Len(j.steps) |-> ser_Step(j.steps[i])])),
            Ent("container",
                IF j.container.some THEN ser_Container(j.container.v) ELSE Null) >>)

(***************************************************************************)
(* type JobMap = HashMap<String, Job>                                      *)
(***************************************************************************)
\* rs: the decodes as Job of the values of n, in order
JobMap_visit_map(n, rs) ==
    IF n.k # "map" THEN Err("invalid type")
    ELSE IF AnyErr(rs) THEN FirstErr(rs)
    ELSE Ok([id \in Keys(n) |-> Seen(n, rs, id)])

de_JobMap(n) == JobMap_visit_map(n, [i \in 1..Len(n.items) |-> de_Job(n.items[i].val)])

\* order: the job identifiers in the order the HashMap yields them
ser_JobMap(jobs, order) ==
    MapN([i \in 1..Len(order) |-> Ent(order[i], ser_Job(jobs[order[i]]))])

(***************************************************************************)
(* struct Workflow and Workflow::parse_str.  Modelled fields: name, on,    *)
(* jobs (env and defaults are Options no document of the model sets).      *)
(***************************************************************************)
Workflow_field(key, v) ==
    CASE key = "name" -> de_OptionString(v)
      [] key = "on" -> de_Trigger(v)
      [] key = "jobs" -> de_JobMap(v)
      [] OTHER -> Ok(<<>>)

\* rs: the results of Workflow_field on the entries of n, in order
Workflow_visit_map(n, rs) ==
    IF n.k # "map" THEN Err("invalid type")
    ELSE IF AnyErr(rs) THEN FirstErr(rs)
    ELSE IF ~HasKey(n, "on") \/ ~HasKey(n, "jobs") THEN Err("missing field")
    ELSE Ok([name |-> IF HasKey(n, "name") THEN Seen(n, rs, "name") ELSE None,
             on |-> Seen(n, rs, "on"),
             jobs |-> Seen(n, rs, "jobs")])

de_Workflow(n) ==
    Workflow_visit_map(n, [i \in 1..Len(n.items) |->
                            Workflow_field(n.items[i].key, n.items[i].val)])

\* serde_yaml::from_str(&input): input is the document tree of the text
parse_str(input) == de_Workflow(input)

\* the derived Serialize of Workflow
ser_Workflow(w, order) ==
    MapN(<< Ent("name", ser_OptionString(w.name)),
            Ent("on", ser_Trigger(w.on)),
            Ent("jobs", ser_JobMap(w.jobs, order)) >>)

\* The entry points through which a document is decoded into a Workflow:
\* impl Workflow has the one function parse_str, which takes the text only.
EntryPoints == {"parse_str"}

Decode(entry, input) == parse_str(input)

(***************************************************************************)
(* The documents, workflows and one-or-many values the model draws from.   *)
(***************************************************************************)
\* the sequences over S of length at most n
SeqsUpTo(S, n) == UNION {[1..m -> S] : m \in 0..n}

Cron5 == "*/5 * * * *"

CronMidnight == "0 0 * * *"

CronWords == "5 minutes"

Cron4 == "* * * *"

Crons == {Cron5, CronMidnight, CronWords, Cron4}

Labels == {"ubuntu-latest", "self-hosted", "macos-latest"}

Images == {"node:14", "alpine"}

AllIds == << "a", "b", "c", "d", "e" >>

JobIds == {AllIds[i] : i \in 1..MaxJobs}

\* what a `needs` list may name: the declared jobs and one that never exists
NeedIds == JobIds \cup {"ghost"}

NeedLists == SeqsUpTo(NeedIds, MaxNeeds)

\* marks a key a document leaves out
Absent == [k |-> "absent", s |-> "", items |-> <<>>]

\* a mapping of the given entries, those marked Absent left out
MapOf(es) == MapN(SelectSeq(es, LAMBDA e : e.val # Absent))

StrSeq(l) == SeqN([i \in 1..Len(l) |-> Str(l[i])])

CronEntry(c) == MapN(<<Ent("cron", Str(c))>>)

PushConfig == MapN(<<Ent("branches", StrSeq(<<"main">>))>>)

TriggerNodes ==
    {MapN(<<Ent("schedule", SeqN(<<CronEntry(c)>>))>>) : c \in Crons}
    \cup {SeqN(<<CronEntry(c)>>) : c \in Crons}
    \cup {SeqN(<<CronEntry(Cron5), CronEntry(CronMidnight)>>),
          SeqN(<<SeqN(<<Str(Cron5)>>)>>),
          SeqN(<<>>),
          Str("push"),
          StrSeq(<<"push", "pull_request">>),
          MapN(<<Ent("push", Null)>>),
          MapN(<<Ent("push", PushConfig), Ent("pull_request", Null)>>),
          MapN(<<Ent("one", Str("push"))>>),
          MapN(<<Ent("one", MapN(<<Ent("push", PushConfig)>>))>>),
          MapN(<<Ent("many", StrSeq(<<"push", "pull_request">>))>>),
          MapN(<<Ent("many", SeqN(<<>>))>>),
          MapN(<<Ent("many", Str("push"))>>)}

RunsOnNodes ==
    UNION {{Str(s), StrSeq(<<s>>), MapN(<<Ent("one", Str(s))>>),
            MapN(<<Ent("many", StrSeq(<<s>>))>>)} : s \in Labels}
    \cup {MapN(<<Ent("many", SeqN(<<>>))>>)}

ContainerNodes ==
    UNION {{Str(n), MapN(<<Ent("name", Str(n))>>),
            MapN(<<Ent("name", Str(n)), Ent("ports", SeqN(<<Num("80")>>)),
                   Ent("options", StrSeq(<<"--init">>))>>)} : n \in Images}
    \cup {Null, Absent}

StepsNodes ==
    {Absent, SeqN(<<>>),
     SeqN(<<MapN(<<Ent("uses", Str("actions/checkout@v2"))>>)>>),
     SeqN(<<MapN(<<Ent("run", Str("make"))>>)>>),
     SeqN(<<MapN(<<Ent("uses", Str("actions/checkout@v2")), Ent("run", Str("make"))>>)>>)}

JobNode(needs, runsOn, container, steps) ==
    MapOf(<< Ent("needs", IF needs = <<>> THEN Absent ELSE StrSeq(needs)),
             Ent("runs-on", runsOn),
             Ent("steps", steps),
             Ent("container", container) >>)

BaseRunsOn == MapN(<<Ent("one", Str("ubuntu-latest"))>>)

BaseJobs == MapN(<<Ent("a", JobNode(<<>>, BaseRunsOn, Absent, Absent))>>)

BaseTrigger == MapN(<<Ent("one", Str("push"))>>)

\* the job mapping of the dependency graph g: job id -> its needs list
GraphJobs(g) ==
    LET ids == SelectSeq(AllIds, LAMBDA id : id \in DOMAIN g)
    IN  MapN([i \in 1..Len(ids) |->
                Ent(ids[i], JobNode(g[ids[i]], BaseRunsOn, Absent, Absent))])

Graphs == UNION {[P -> NeedLists] : P \in (SUBSET JobIds) \ {{}}}

WorkflowNode(name, on, jobs, extra) ==
    MapOf(<< Ent("name", name), Ent("on", on), Ent("jobs", jobs),
             Ent("unrecognized", extra) >>)

Docs ==
    {WorkflowNode(name, on, BaseJobs, extra) :
        name \in {Absent, Str("ci")}, on \in TriggerNodes \cup {Absent},
        extra \in {Absent, Str("x")}}
    \cup {WorkflowNode(Absent, BaseTrigger, GraphJobs(g), Absent) : g \in Graphs}
    \cup {WorkflowNode(Absent, BaseTrigger,
                       MapN(<<Ent("a", JobNode(<<>>, r, c, s))>>), Absent) :
            r \in RunsOnNodes, c \in ContainerNodes, s \in StepsNodes}

\* typed values, for encoding
Payloads == {Null, Str("push"), PushConfig}

Triggers ==
    {Trigger_Events(One(Event(EventVariants[i], p))) :
        i \in 1..Len(EventVariants), p \in Payloads}
    \cup {Trigger_Events(Many(l)) :
            l \in SeqsUpTo({Event("Push", Null), Event("Release", PushConfig)}, 2)}
    \cup {Trigger_Schedule(l) : l \in SeqsUpTo({[cron |-> c] : c \in {Cron5, CronWords}}, 2)}

Containers ==
    {None}
    \cup {Some(Container_from_str(n)) : n \in Images}
    \cup {Some([Container_from_str(n) EXCEPT !.ports = <<"80">>, !.options = <<"--init">>,
                                            !.env = Some([CI |-> "true"])]) : n \in Images}

Steps ==
    {<<>>,
     <<[name |-> None, uses |-> "actions/checkout@v2", run |-> None]>>,
     <<[name |-> Some("build"), uses |-> "", run |-> Some("make")]>>}

Jobs ==
    {[name |-> None, needs |-> <<>>, runs_on |-> r, steps |-> s, container |-> c] :
        r \in {One("ubuntu-latest"), Many(<<"ubuntu-latest">>), Many(<<>>)},
        s \in Steps, c \in Containers}

Workflows ==
    {[name |-> n, on |-> t, jobs |-> [id \in {"a"} |-> j]] :
        n \in {None, Some("ci")}, t \in Triggers,
        j \in {[name |-> None, needs |-> <<>>, runs_on |-> One("ubuntu-latest"),
                steps |-> <<>>, container |-> None]}}
    \cup {[name |-> None, on |-> Trigger_Schedule(<<[cron |-> Cron5]>>),
           jobs |-> [id \in {"a"} |-> j]] : j \in Jobs}
    \cup {[name |-> None, on |-> Trigger_Schedule(<<[cron |-> Cron5]>>),
           jobs |-> [id \in {"a", "b"} |->
                        [name |-> Some(id), needs |-> IF id = "a" THEN <<"b">> ELSE <<>>,
                         runs_on |-> One("ubuntu-latest"), steps |-> <<>>,
                         container |-> None]]]}

OneOrManys ==
    {One(x) : x \in Labels} \cup {Many(l) : l \in SeqsUpTo(Labels, MaxLen)}

(***************************************************************************)
(* State machine.  One call is in flight per behaviour: parse_str on a     *)
(* document, encoding a Workflow and decoding the text again, or into_vec  *)
(* on a one-or-many value.                                                 *)
(***************************************************************************)
NoResult == Err("")

Init ==
    \/ /\ pc = "parse_str"
       /\ doc \in Docs
       /\ result = NoResult /\ tried = <<>>
       /\ wf = <<>> /\ encoded = Null /\ redecoded = NoResult
       /\ oom = Many(<<>>) /\ vec = <<>>
    \/ /\ pc = "to_string"
       /\ wf \in Workflows
       /\ doc = Null /\ result = NoResult /\ tried = <<>>
       /\ encoded = Null /\ redecoded = NoResult
       /\ oom = Many(<<>>) /\ vec = <<>>
    \/ /\ pc = "into_vec"
       /\ oom \in OneOrManys
       /\ doc = Null /\ result = NoResult /\ tried = <<>>
       /\ wf = <<>> /\ encoded = Null /\ redecoded = NoResult
       /\ vec = <<>>

\* the walk over the root mapping reaches `key`: every entry before it decodes
Reaches(n, key) ==
    /\ n.k = "map"
    /\ \E i \in 1..Len(n.items) :
        /\ n.items[i].key = key
        /\ \A j \in 1..(i - 1) : Workflow_field(n.items[j].key, n.items[j].val).ok

\* Workflow::parse_str(input)
ParseStr ==
    /\ pc = "parse_str"
    /\ result' = parse_str(doc)
    /\ tried' = IF Reaches(doc, "on") THEN Trigger_tried(Get(doc, "on")) ELSE <<>>
    /\ pc' = "parsed"
    /\ UNCHANGED <<doc, wf, encoded, redecoded, oom, vec>>

\* the derived Serialize of a Workflow; the job mapping is a HashMap, which
\* yields its entries in an order of its own
Encode ==
    /\ pc = "to_string"
    /\ \E order \in [1..Cardinality(DOMAIN wf.jobs) -> DOMAIN wf.jobs] :
        /\ \A id \in DOMAIN wf.jobs : \E i \in DOMAIN order : order[i] = id
        /\ encoded' = ser_Workflow(wf, order)
    /\ pc' = "encoded"
    /\ UNCHANGED <<doc, result, tried, wf, redecoded, oom, vec>>

\* Workflow::parse_str on the encoded text
Reparse ==
    /\ pc = "encoded"
    /\ redecoded' = parse_str(encoded)
    /\ pc' = "reparsed"
    /\ UNCHANGED <<doc, result, tried, wf, encoded, oom, vec>>

\* OneOrMany::into_vec(self)
IntoVec ==
    /\ pc = "into_vec"
    /\ vec' = into_vec(oom)
    /\ pc' = "done"
    /\ UNCHANGED <<doc, result, tried, wf, encoded, redecoded, oom>>

Next == ParseStr \/ Encode \/ Reparse \/ IntoVec

Spec == Init /\ [][Next]_vars

(***************************************************************************)
(* Vocabulary of the properties.                                           *)
(***************************************************************************)
\* the characters of the cron texts the model uses
Chars(s) ==
    CASE s = "*/5 * * * *" -> << "*", "/", "5", " ", "*", " ", "*", " ", "*", " ", "*" >>
      [] s = "0 0 * * *" -> << "0", " ", "0", " ", "*", " ", "*", " ", "*" >>
      [] s = "5 minutes" -> << "5", " ", "m", "i", "n", "u", "t", "e", "s" >>
      [] s = "* * * *" -> << "*", " ", "*", " ", "*", " ", "*" >>

RECURSIVE Split(_, _)
\* the pieces of the character sequence cs between occurrences of sep
Split(cs, sep) ==
    IF \A i \in 1..Len(cs) : cs[i] # sep THEN <<cs>>
    ELSE LET i == CHOOSE i \in 1..Len(cs) :
                    cs[i] = sep /\ \A j \in 1..(i - 1) : cs[j] # sep
         IN  <<SubSeq(cs, 1, i - 1)>> \o Split(SubSeq(cs, i + 1, Len(cs)), sep)

\* whitespace-separated fields: the non-empty pieces between blanks
CronFields(cs) == SelectSeq(Split(cs, " "), LAMBDA f : f # <<>>)

Digits == {"0", "1", "2", "3", "4", "5", "6", "7", "8", "9"}

IsNumber(cs) == cs # <<>> /\ \A i \in 1..Len(cs) : cs[i] \in Digits

\* `*`, a number, or a range number-number
IsCronRange(cs) ==
    \/ cs = <<"*">>
    \/ IsNumber(cs)
    \/ /\ Len(Split(cs, "-")) = 2
       /\ IsNumber(Split(cs, "-")[1]) /\ IsNumber(Split(cs, "-")[2])

\* a range, optionally followed by /step
IsCronItem(cs) ==
    \/ IsCronRange(cs)
    \/ /\ Len(Split(cs, "/")) = 2
       /\ IsCronRange(Split(cs, "/")[1]) /\ IsNumber(Split(cs, "/")[2])

\* a comma-separated list of items
IsCronField(cs) ==
    \A i \in 1..Len(Split(cs, ",")) : IsCronItem(Split(cs, ",")[i])

\* exactly 5 whitespace-separated fields in POSIX cron grammar
IsCron(s) ==
    /\ Len(CronFields(Chars(s))) = 5
    /\ \A i \in 1..5 : IsCronField(CronFields(Chars(s))[i])

\* the node of job id in document n, and n with that job's key set to v
JobOf(n, id) == Get(Get(n, "jobs"), id)

WithJobKey(n, id, key, v) ==
    Replace(n, "jobs", Replace(Get(n, "jobs"), id, Replace(JobOf(n, id), key, v)))

HasJobKey(n, id, key) ==
    /\ n.k = "map" /\ HasKey(n, "jobs")
    /\ Get(n, "jobs").k = "map" /\ HasKey(Get(n, "jobs"), id)
    /\ JobOf(n, id).k = "map" /\ HasKey(JobOf(n, id), key)

\* the job identifiers document n declares, and the ones job id says it needs
DeclaredJobs(n) == Keys(Get(n, "jobs"))

NeedsOf(n, id) ==
    IF HasKey(JobOf(n, id), "needs")
    THEN {Get(JobOf(n, id), "needs").items[i].s :
            i \in 1..Len(Get(JobOf(n, id), "needs").items)}
    ELSE {}

RECURSIVE NeedsWithin(_, _, _)
\* the jobs reached from the set S along `needs` in at most m further steps
NeedsWithin(n, S, m) ==
    IF m = 0 THEN S
    ELSE NeedsWithin(n, S \cup UNION {NeedsOf(n, id) : id \in S \cap DeclaredJobs(n)}, m - 1)

OnCycle(n, id) == id \in NeedsWithin(n, NeedsOf(n, id), Cardinality(DeclaredJobs(n)))

HasCycle(n) == \E id \in DeclaredJobs(n) : OnCycle(n, id)

Dangling(n) == (UNION {NeedsOf(n, id) : id \in DeclaredJobs(n)}) \ DeclaredJobs(n)

\* a document of the dependency-graph family: jobs that differ only in needs
IsGraphDoc(n) ==
    /\ n.k = "map" /\ HasKey(n, "jobs") /\ HasKey(n, "on")
    /\ Get(n, "on") = BaseTrigger
    /\ \A id \in DeclaredJobs(n) :
        /\ Get(JobOf(n, id), "runs-on") = BaseRunsOn
        /\ Keys(JobOf(n, id)) \subseteq {"needs", "runs-on"}

\* a mapping {schedule: [{cron: <string>}, ...]}
IsScheduleMapping(n) ==
    /\ n.k = "map" /\ Len(n.items) = 1 /\ n.items[1].key = "schedule"
    /\ n.items[1].val.k = "seq" /\ n.items[1].val.items # <<>>
    /\ \A i \in 1..Len(n.items[1].val.items) :
        LET e == n.items[1].val.items[i]
        IN  e.k = "map" /\ Keys(e) = {"cron"} /\ Get(e, "cron").k = "str"

(***************************************************************************)
(* Properties.                                                             *)
(***************************************************************************)

\* C1: a document whose `on` is a mapping with a `schedule` key holding a
\* list of {cron: <string>} entries (the rest of the document being valid)
\* decodes, and its Trigger is the Schedule variant, never Events.
C1_ScheduleMappingIsSchedule ==
    (/\ pc = "parsed"
     /\ Reaches(doc, "on") /\ IsScheduleMapping(Get(doc, "on"))
     /\ parse_str(Replace(doc, "on", BaseTrigger)).ok)
    => (result.ok /\ result.val.on.variant = "Schedule")

\* C2: a job's container written as the bare string n and written as the
\* object {name: n} both decode, to the same Workflow, whose container has
\* name n and every other field at its default.
C2_ContainerShapesAgree ==
    (/\ pc = "parsed"
     /\ HasJobKey(doc, "a", "container")
     /\ Get(JobOf(doc, "a"), "container").k = "str"
     /\ parse_str(WithJobKey(doc, "a", "container", Null)).ok)
    => LET n == Get(JobOf(doc, "a"), "container").s
           detailed == parse_str(WithJobKey(doc, "a", "container",
                                            MapN(<<Ent("name", Str(n))>>)))
       IN  /\ result.ok
           /\ detailed.ok
           /\ result.val = detailed.val
           /\ result.val.jobs["a"].container = Some(Container_from_str(n))

\* C3: a job's runs-on written as the scalar s and written as the list [s]
\* both decode, to the same sequence of runner labels.
C3_RunsOnScalarAndListAgree ==
    (/\ pc = "parsed"
     /\ HasJobKey(doc, "a", "runs-on")
     /\ Get(JobOf(doc, "a"), "runs-on").k = "str"
     /\ parse_str(WithJobKey(doc, "a", "runs-on", BaseRunsOn)).ok)
    => LET s == Get(JobOf(doc, "a"), "runs-on").s
           listed == parse_str(WithJobKey(doc, "a", "runs-on", StrSeq(<<s>>)))
       IN  /\ result.ok
           /\ listed.ok
           /\ into_vec(result.val.jobs["a"].runs_on) = <<s>>
           /\ into_vec(listed.val.jobs["a"].runs_on) = <<s>>

\* C4: encoding a Workflow and decoding the text with parse_str succeeds
\* and gives back a value equal to the original.
C4_RoundTrip ==
    pc = "reparsed" => (redecoded.ok /\ redecoded.val = wf)

\* C5: a document whose needs relation has a cycle is rejected with a
\* CyclicDependency error; one whose needs relation is acyclic and names
\* only declared jobs decodes.
C5_CyclesRejected ==
    (pc = "parsed" /\ IsGraphDoc(doc))
    => /\ HasCycle(doc) => (~result.ok /\ result.err = "CyclicDependency")
       /\ (~HasCycle(doc) /\ Dangling(doc) = {}) => result.ok

\* C6: every decoded Workflow has each identifier of every job's needs among
\* its job keys; a document with a needs entry that names no job is rejected
\* with a DanglingReference error.
C6_NeedsResolve ==
    (pc = "parsed" /\ IsGraphDoc(doc))
    => /\ result.ok =>
            \A id \in DOMAIN result.val.jobs :
                \A i \in 1..Len(result.val.jobs[id].needs) :
                    result.val.jobs[id].needs[i] \in DOMAIN result.val.jobs
       /\ Dangling(doc) # {} => (~result.ok /\ result.err = "DanglingReference")

\* C7: a schedule entry is accepted only when its cron text has exactly 5
\* whitespace-separated fields in POSIX cron grammar, and such a text is
\* accepted.
C7_CronValidated ==
    (pc = "parsed" /\ Reaches(doc, "on") /\ Get(doc, "on").k = "seq"
        /\ parse_str(Replace(doc, "on", BaseTrigger)).ok)
    => /\ (result.ok /\ result.val.on.variant = "Schedule") =>
            \A i \in 1..Len(result.val.on.schedule) :
                IsCron(result.val.on.schedule[i].cron)
       /\ (\A i \in 1..Len(Get(doc, "on").items) :
                /\ Get(doc, "on").items[i].k = "map"
                /\ Keys(Get(doc, "on").items[i]) = {"cron"}
                /\ IsCron(Get(Get(doc, "on").items[i], "cron").s))
            => result.ok

\* C8: for a document that is valid but for one unrecognized key at its
\* root, the decoder has a strict way in that answers UnknownField and a
\* lenient way in that answers the Workflow of the document without the key.
C8_StrictAndLenient ==
    (/\ pc = "parsed"
     /\ doc.k = "map" /\ HasKey(doc, "unrecognized")
     /\ parse_str(Without(doc, "unrecognized")).ok)
    => /\ \E e \in EntryPoints :
            ~Decode(e, doc).ok /\ Decode(e, doc).err = "UnknownField"
       /\ \E e \in EntryPoints :
            /\ Decode(e, doc).ok
            /\ Decode(e, doc).val = parse_str(Without(doc, "unrecognized")).val

\* the node kinds a Trigger candidate's decoder takes up at all: an enum
\* named by the document takes a single-key mapping whose key is one of its
\* variants, a Vec takes a sequence
ShapeMatches(cand, n) ==
    IF cand = "Events"
    THEN n.k = "map" /\ Len(n.items) = 1 /\ n.items[1].key \in {"one", "many"}
    ELSE n.k = "seq"

\* C9: once a candidate whose shape matches the node has been tried and its
\* decode failed, no later candidate is tried and that failure is the error
\* returned.
C9_NoFallbackAfterMatch ==
    (pc = "parsed" /\ Reaches(doc, "on"))
    => \A i \in 1..Len(tried) :
        (ShapeMatches(tried[i].cand, Get(doc, "on")) /\ ~tried[i].ok)
        => (i = Len(tried) /\ ~result.ok /\ result.err = tried[i].err)

\* C10: into_vec of a single item x is exactly <<x>>; of a list it is the
\* list's elements, as many and in the same order; of an empty list it is
\* the empty sequence.
C10_IntoVec ==
    pc = "done"
    => /\ oom.variant = "One" => (Len(vec) = 1 /\ vec[1] = oom.item)
       /\ oom.variant = "Many" =>
            /\ Len(vec) = Len(oom.list)
            /\ \A i \in 1..Len(oom.list) : vec[i] = oom.list[i]
            /\ (oom.list = <<>> => vec = <<>>)

\* into_vec has run on a list of several different labels
C10_Witness ==
    /\ pc = "done"
    /\ oom.variant = "Many"
    /\ Len(oom.list) >= 2
    /\ oom.list[1] # oom.list[2]
    /\ vec = oom.list

\* a step node that carries an action reference, an inline command, or both
HasUsesOrRun(step) ==
    /\ step.k = "map"
    /\ HasKey(step, "uses") \/ HasKey(step, "run")

\* C11: a job whose steps each carry `uses` or `run` decodes: `run` alone
\* suffices, as does `uses` alone, and no step is rejected for lacking one
\* of the two.
C11_UsesOrRunSuffices ==
    (/\ pc = "parsed"
     /\ HasJobKey(doc, "a", "steps")
     /\ Get(JobOf(doc, "a"), "steps").k = "seq"
     /\ \A i \in 1..Len(Get(JobOf(doc, "a"), "steps").items) :
            HasUsesOrRun(Get(JobOf(doc, "a"), "steps").items[i])
     /\ parse_str(WithJobKey(doc, "a", "steps", SeqN(<<>>))).ok)
    => result.ok

====
